---- MODULE Spec2Model ----
(***************************************************************************)
(* TerminalPrinter of src/src/printer/terminal.rs: the type-expression     *)
(* renderer, the parameter renderer, the signature routines, the comment   *)
(* formatter, the tree printer print_ and the detail view print_details.   *)
(*                                                                         *)
(* A Rust String is a sequence of one-character strings, so that           *)
(* String::len, String::truncate, str::split and str::replace are computed *)
(* on characters. An Option is a sequence of length 0 (None) or 1 (Some).  *)
(* Standard output is the sequence of the writes made to it: one element   *)
(* for each print! or println! call, which holds the stdout lock for the   *)
(* whole of its text.                                                      *)
(***************************************************************************)
EXTENDS Integers, Sequences, FiniteSets

VARIABLES pc, call, stack, k, sink, ret

vars == <<pc, call, stack, k, sink, ret>>

----------------------------------------------------------------------------
(* Bounds of the checked inputs.                                           *)

\* longest list of types (Union, Intersection, Tuple, type arguments) and
\* longest parameter list handed to the renderers
MaxListLen == 3
\* longest collection of sibling nodes handed to print
MaxSiblings == 2
\* longest comment text, in characters, handed to print_jsdoc
MaxDocLen == 4

----------------------------------------------------------------------------
(* Option, String and panic.                                               *)

None == <<>>
Some(x) == <<x>>
is_some(o) == Len(o) > 0
unwrap(o) == o[1]

\* The value of an expression whose evaluation panicked (an unwrap of None).
\* No String holds this element: every character is one character long.
Panic == <<"!panic">>

RECURSIVE Concat(_)
Concat(parts) ==
  IF parts = <<>> THEN <<>> ELSE Head(parts) \o Concat(Tail(parts))

\* format!: the pieces in order; the arguments are evaluated before anything
\* is written, so a panicking argument leaves no text at all.
Fmt(parts) ==
  IF \E i \in 1..Len(parts) : parts[i] = Panic THEN Panic ELSE Concat(parts)

\* String::truncate(new_len): no effect when new_len is not below the length.
truncate(s, new_len) ==
  IF new_len >= Len(s) THEN s ELSE SubSeq(s, 1, new_len)

Digits == <<"0", "1", "2", "3", "4", "5", "6", "7", "8", "9">>

\* Display of an integer: its decimal text.
RECURSIVE NatToString(_)
NatToString(n) ==
  IF n < 10 THEN <<Digits[n + 1]>>
  ELSE NatToString(n \div 10) \o <<Digits[(n % 10) + 1]>>

IntToString(n) == IF n < 0 THEN <<"-">> \o NatToString(-n) ELSE NatToString(n)

BoolToString(b) ==
  IF b THEN <<"t", "r", "u", "e">> ELSE <<"f", "a", "l", "s", "e">>

\* The byte of a character, as str::cmp compares them.
Byte(c) ==
  CASE c = "B" -> 66
    [] c = "a" -> 97
    [] c = "b" -> 98
    [] c = "n" -> 110
    [] OTHER -> 120

\* Ord for String: lexicographic on bytes; -1 Less, 0 Equal, 1 Greater.
RECURSIVE StrCmp(_, _)
StrCmp(a, b) ==
  IF a = <<>> /\ b = <<>> THEN 0
  ELSE IF a = <<>> THEN -1
  ELSE IF b = <<>> THEN 1
  ELSE IF Byte(Head(a)) < Byte(Head(b)) THEN -1
  ELSE IF Byte(Head(a)) > Byte(Head(b)) THEN 1
  ELSE StrCmp(Tail(a), Tail(b))

\* All sequences over S of length at most n.
RECURSIVE SeqsUpTo(_, _)
SeqsUpTo(S, n) ==
  IF n = 0 THEN {<<>>}
  ELSE LET shorter == SeqsUpTo(S, n - 1)
       IN  shorter \cup {Append(s, x) : s \in {t \in shorter : Len(t) = n - 1}, x \in S}

----------------------------------------------------------------------------
(* doc::ts_type::TsTypeDef as render_ts_type reads it: the tag `kind`, the *)
(* text `repr`, and one optional payload field for each variant.           *)

TsBlank ==
  [kind |-> None, repr |-> <<>>,
   array |-> None, conditional_type |-> None, fn_or_constructor |-> None,
   indexed_access |-> None, intersection |-> None, keyword |-> None,
   literal |-> None, parenthesized |-> None, rest |-> None, tuple |-> None,
   type_operator |-> None, type_query |-> None, type_ref |-> None,
   union |-> None]

\* A tag with no payload populated.
TsBare(kind) == [TsBlank EXCEPT !.kind = Some(kind)]

TsKeyword(s) == [TsBare("Keyword") EXCEPT !.keyword = Some(s), !.repr = s]
TsThis == TsBare("This")
TsOptional == TsBare("Optional")
TsTypeLiteral(repr) == [TsBare("TypeLiteral") EXCEPT !.repr = repr]
TsTypeQuery(s) == [TsBare("TypeQuery") EXCEPT !.type_query = Some(s)]
TsArray(t) == [TsBare("Array") EXCEPT !.array = Some(t)]
TsParenthesized(t) == [TsBare("Parenthesized") EXCEPT !.parenthesized = Some(t)]
TsRest(t) == [TsBare("Rest") EXCEPT !.rest = Some(t)]
TsUnion(ts) == [TsBare("Union") EXCEPT !.union = Some(ts)]
TsIntersection(ts) == [TsBare("Intersection") EXCEPT !.intersection = Some(ts)]
TsTuple(ts) == [TsBare("Tuple") EXCEPT !.tuple = Some(ts)]
TsTypeRef(name, params) ==
  [TsBare("TypeRef") EXCEPT
     !.type_ref = Some([type_name |-> name, type_params |-> params])]
TsTypeOperator(op, t) ==
  [TsBare("TypeOperator") EXCEPT
     !.type_operator = Some([operator |-> op, ts_type |-> t])]
TsIndexedAccess(o, i) ==
  [TsBare("IndexedAccess") EXCEPT
     !.indexed_access = Some([obj_type |-> o, index_type |-> i])]
TsConditional(c, e, t, f) ==
  [TsBare("Conditional") EXCEPT
     !.conditional_type =
        Some([check_type |-> c, extends_type |-> e,
              true_type |-> t, false_type |-> f])]
TsFnOrConstructor(ctor, params, t) ==
  [TsBare("FnOrConstructor") EXCEPT
     !.fn_or_constructor =
        Some([constructor |-> ctor, params |-> params, ts_type |-> t])]
TsLiteral(kind, b, s, n) ==
  [TsBare("Literal") EXCEPT
     !.literal = Some([kind |-> kind, boolean |-> b, string |-> s, number |-> n])]

ParamDef(name, ts_type) == [name |-> name, ts_type |-> ts_type]

----------------------------------------------------------------------------
(* render_params and render_ts_type.                                       *)

RECURSIVE render_ts_type(_), render_params(_)

\* The loop `for ts_type in list { output.push_str(render); output.push_str(sep) }`
\* of the Intersection, Tuple, TypeRef and Union arms.
RECURSIVE push_each(_, _, _)
push_each(list, sep, output) ==
  IF list = <<>> THEN output
  ELSE LET r == render_ts_type(Head(list))
       IN  IF r = Panic THEN Panic
           ELSE push_each(Tail(list), sep, output \o r \o sep)

\* The loop of render_params: name, then ": " and the type when there is one,
\* then ", ".
RECURSIVE push_params(_, _)
push_params(params, rendered) ==
  IF params = <<>> THEN rendered
  ELSE LET param == Head(params)
           named == rendered \o param.name
           typed == IF is_some(param.ts_type)
                    THEN Fmt(<<named, <<":", " ">>,
                               render_ts_type(unwrap(param.ts_type))>>)
                    ELSE named
       IN  IF typed = Panic THEN Panic
           ELSE push_params(Tail(params), typed \o <<",", " ">>)

render_params(params) ==
  LET rendered == push_params(params, <<>>)
  IN  IF Len(params) > 0
      THEN IF rendered = Panic THEN Panic
           ELSE truncate(rendered, Len(rendered) - 2)
      ELSE <<>>

render_intersection(ts_type) ==
  IF ~is_some(ts_type.intersection) THEN Panic
  ELSE LET intersection == unwrap(ts_type.intersection)
           output == push_each(intersection, <<" ", "&", " ">>, <<>>)
       IN  IF Len(intersection) > 0
           THEN IF output = Panic THEN Panic
                ELSE truncate(output, Len(output) - 3)
           ELSE <<>>

render_tuple(ts_type) ==
  IF ~is_some(ts_type.tuple) THEN Panic
  ELSE LET tuple == unwrap(ts_type.tuple)
           output == push_each(tuple, <<",", " ">>, <<>>)
       IN  IF Len(tuple) > 0
           THEN IF output = Panic THEN Panic
                ELSE truncate(output, Len(output) - 2)
           ELSE <<>>

\* The Union arm with the Tuple arm's truncation length.
render_union_as_tuple(ts_type) ==
  IF ~is_some(ts_type.union) THEN Panic
  ELSE LET union == unwrap(ts_type.union)
           output == push_each(union, <<" ", "|", " ">>, <<>>)
       IN  IF Len(union) > 0
           THEN IF output = Panic THEN Panic
                ELSE truncate(output, Len(output) - 2)
           ELSE <<>>

render_union(ts_type) ==
  IF ~is_some(ts_type.union) THEN Panic
  ELSE LET union == unwrap(ts_type.union)
           output == push_each(union, <<" ", "|", " ">>, <<>>)
       IN  IF Len(union) > 0
           THEN IF output = Panic THEN Panic
                ELSE truncate(output, Len(output) - 3)
           ELSE <<>>

render_type_ref(ts_type) ==
  IF ~is_some(ts_type.type_ref) THEN Panic
  ELSE LET type_ref == unwrap(ts_type.type_ref)
           final_output == type_ref.type_name
       IN  IF is_some(type_ref.type_params)
           THEN LET type_params == unwrap(type_ref.type_params)
                    pushed == push_each(type_params, <<",", " ">>, <<>>)
                    output == IF Len(type_params) > 0
                              THEN IF pushed = Panic THEN Panic
                                   ELSE truncate(pushed, Len(pushed) - 2)
                              ELSE <<>>
                IN  Fmt(<<final_output, <<"<">>, output, <<">">>>>)
           ELSE final_output

render_literal(ts_type) ==
  IF ~is_some(ts_type.literal) THEN Panic
  ELSE LET literal == unwrap(ts_type.literal)
       IN  CASE literal.kind = "Boolean" ->
                  IF is_some(literal.boolean)
                  THEN BoolToString(unwrap(literal.boolean)) ELSE Panic
             [] literal.kind = "String" ->
                  IF is_some(literal.string) THEN unwrap(literal.string) ELSE Panic
             [] literal.kind = "Number" ->
                  IF is_some(literal.number)
                  THEN IntToString(unwrap(literal.number)) ELSE Panic

render_conditional(ts_type) ==
  IF ~is_some(ts_type.conditional_type) THEN Panic
  ELSE LET conditional == unwrap(ts_type.conditional_type)
       IN  Fmt(<<render_ts_type(conditional.check_type),
                 <<" ", "e", "x", "t", "e", "n", "d", "s", " ">>,
                 render_ts_type(conditional.extends_type),
                 <<" ", "?", " ">>,
                 render_ts_type(conditional.true_type),
                 <<" ", ":", " ">>,
                 render_ts_type(conditional.false_type)>>)

render_fn_or_constructor(ts_type) ==
  IF ~is_some(ts_type.fn_or_constructor) THEN Panic
  ELSE LET fn_or_constructor == unwrap(ts_type.fn_or_constructor)
       IN  Fmt(<<IF fn_or_constructor.constructor
                 THEN <<"n", "e", "w", " ">> ELSE <<>>,
                 <<"(">>,
                 render_params(fn_or_constructor.params),
                 <<")", " ", "=", ">", " ">>,
                 render_ts_type(fn_or_constructor.ts_type)>>)

render_ts_type(ts_type) ==
  IF ~is_some(ts_type.kind) THEN Panic
  ELSE LET kind == unwrap(ts_type.kind)
       IN  CASE kind = "Array" ->
                  IF ~is_some(ts_type.array) THEN Panic
                  ELSE Fmt(<<render_ts_type(unwrap(ts_type.array)), <<"[", "]">>>>)
             [] kind = "Conditional" -> render_conditional(ts_type)
             [] kind = "FnOrConstructor" -> render_fn_or_constructor(ts_type)
             [] kind = "IndexedAccess" ->
                  IF ~is_some(ts_type.indexed_access) THEN Panic
                  ELSE LET indexed_access == unwrap(ts_type.indexed_access)
                       IN  Fmt(<<render_ts_type(indexed_access.obj_type), <<"[">>,
                                 render_ts_type(indexed_access.index_type), <<"]">>>>)
             [] kind = "Intersection" -> render_intersection(ts_type)
             [] kind = "Keyword" ->
                  IF is_some(ts_type.keyword) THEN unwrap(ts_type.keyword) ELSE Panic
             [] kind = "Literal" -> render_literal(ts_type)
             [] kind = "Optional" ->
                  <<"_", "o", "p", "t", "i", "o", "n", "a", "l", "_">>
             [] kind = "Parenthesized" ->
                  IF ~is_some(ts_type.parenthesized) THEN Panic
                  ELSE Fmt(<<<<"(">>, render_ts_type(unwrap(ts_type.parenthesized)),
                             <<")">>>>)
             [] kind = "Rest" ->
                  IF ~is_some(ts_type.rest) THEN Panic
                  ELSE Fmt(<<<<".", ".", ".">>, render_ts_type(unwrap(ts_type.rest))>>)
             [] kind = "This" -> <<"t", "h", "i", "s">>
             [] kind = "Tuple" -> render_tuple(ts_type)
             [] kind = "TypeLiteral" -> ts_type.repr
             [] kind = "TypeOperator" ->
                  IF ~is_some(ts_type.type_operator) THEN Panic
                  ELSE LET operator == unwrap(ts_type.type_operator)
                       IN  Fmt(<<operator.operator, <<" ">>,
                                 render_ts_type(operator.ts_type)>>)
             [] kind = "TypeQuery" ->
                  IF ~is_some(ts_type.type_query) THEN Panic
                  ELSE Fmt(<<<<"t", "y", "p", "e", "o", "f", " ">>,
                             unwrap(ts_type.type_query)>>)
             [] kind = "TypeRef" -> render_type_ref(ts_type)
             [] kind = "Union" -> render_union(ts_type)

----------------------------------------------------------------------------
(* doc::DocNode as the printer reads it. The tag `kind` is one of the      *)
(* seven DocNodeKind values; function_def, variable_def and namespace_def  *)
(* are the payloads the printer unwraps.                                   *)

Location(filename, line, col) == [filename |-> filename, line |-> line, col |-> col]

DocNode(kind, name, location, js_doc, function_def, variable_def, namespace_def) ==
  [kind |-> kind, name |-> name, location |-> location, js_doc |-> js_doc,
   function_def |-> function_def, variable_def |-> variable_def,
   namespace_def |-> namespace_def]

FunctionDef(params, return_type) == [params |-> params, return_type |-> return_type]
VariableDef(kind, ts_type) == [kind |-> kind, ts_type |-> ts_type]
NamespaceDef(elements) == [elements |-> elements]

----------------------------------------------------------------------------
(* The signature routines: the text each hands to println!, or Panic.      *)

function_signature(node) ==
  IF ~is_some(node.function_def) THEN Panic
  ELSE LET function_def == unwrap(node.function_def)
       IN  IF ~is_some(function_def.return_type) THEN Panic
           ELSE Fmt(<<<<"f", "u", "n", "c", "t", "i", "o", "n", " ">>, node.name,
                      <<"(">>, render_params(function_def.params),
                      <<")", ":", " ">>,
                      render_ts_type(unwrap(function_def.return_type))>>)

variable_signature(node) ==
  IF ~is_some(node.variable_def) THEN Panic
  ELSE LET variable_def == unwrap(node.variable_def)
       IN  Fmt(<<CASE variable_def.kind = "Const" -> <<"c", "o", "n", "s", "t">>
                   [] variable_def.kind = "Let" -> <<"l", "e", "t">>
                   [] variable_def.kind = "Var" -> <<"v", "a", "r">>,
                 <<" ">>, node.name,
                 IF is_some(variable_def.ts_type)
                 THEN Fmt(<<<<":", " ">>, render_ts_type(unwrap(variable_def.ts_type))>>)
                 ELSE <<>> >>)

class_signature(node) == <<"c", "l", "a", "s", "s", " ">> \o node.name
enum_signature(node) == <<"e", "n", "u", "m", " ">> \o node.name
interface_signature(node) ==
  <<"i", "n", "t", "e", "r", "f", "a", "c", "e", " ">> \o node.name
type_alias_signature(node) == <<"t", "y", "p", "e", " ">> \o node.name
namespace_signature(node) ==
  <<"n", "a", "m", "e", "s", "p", "a", "c", "e", " ">> \o node.name

\* `match kind`: the routine print_ and print_details call for the node.
signature_fn(kind) ==
  CASE kind = "Function" -> "print_function_signature"
    [] kind = "Variable" -> "print_variable_signature"
    [] kind = "Class" -> "print_class_signature"
    [] kind = "Enum" -> "print_enum_signature"
    [] kind = "Interface" -> "print_interface_signature"
    [] kind = "TypeAlias" -> "print_type_alias_signature"
    [] kind = "Namespace" -> "print_namespace_signature"

signature(node) ==
  CASE node.kind = "Function" -> function_signature(node)
    [] node.kind = "Variable" -> variable_signature(node)
    [] node.kind = "Class" -> class_signature(node)
    [] node.kind = "Enum" -> enum_signature(node)
    [] node.kind = "Interface" -> interface_signature(node)
    [] node.kind = "TypeAlias" -> type_alias_signature(node)
    [] node.kind = "Namespace" -> namespace_signature(node)

----------------------------------------------------------------------------
(* Writes. A write is [fn, txt]: the routine that made it and its text;    *)
(* the sink adds `by`, the render that made it.                            *)

Write(fn, txt) == [fn |-> fn, txt |-> txt]
println(fn, txt) == Write(fn, txt \o <<"\n">>)

\* print_indent: one print!("  ") for each level.
print_indent(indent) == [n \in 1..indent |-> Write("print_indent", <<" ", " ">>)]

\* str::split("\n\n"): the pieces between the matches found left to right;
\* `cur` is the piece being read. The last piece is always yielded.
RECURSIVE split_nn(_, _)
split_nn(rest, cur) ==
  IF rest = <<>> THEN <<cur>>
  ELSE IF Len(rest) >= 2 /\ rest[1] = "\n" /\ rest[2] = "\n"
       THEN <<cur>> \o split_nn(SubSeq(rest, 3, Len(rest)), <<>>)
       ELSE split_nn(Tail(rest), Append(cur, Head(rest)))

\* str::replace("\n", " ")
replace_nl(line) == [n \in 1..Len(line) |-> IF line[n] = "\n" THEN " " ELSE line[n]]

\* jsdoc.split("\n\n").map(|line| line.replace("\n", " "))
jsdoc_lines(jsdoc) ==
  LET pieces == split_nn(jsdoc, <<>>)
  IN  [n \in 1..Len(pieces) |-> replace_nl(pieces[n])]

\* lines.next().unwrap_or("")
first_line(jsdoc) ==
  LET lines == jsdoc_lines(jsdoc)
  IN  IF Len(lines) > 0 THEN lines[1] ELSE <<>>

RECURSIVE print_all_lines(_, _)
print_all_lines(lines, indent) ==
  IF lines = <<>> THEN <<>>
  ELSE print_indent(indent + 1) \o <<println("print_jsdoc", Head(lines))>>
       \o print_all_lines(Tail(lines), indent)

\* print_jsdoc that prints the first paragraph only, whatever the flag.
print_jsdoc_first(jsdoc, truncated, indent) ==
  print_indent(indent + 1) \o <<println("print_jsdoc", first_line(jsdoc))>>

\* print_jsdoc that drops the truncation flag.
print_jsdoc_all(jsdoc, truncated, indent) ==
  print_all_lines(jsdoc_lines(jsdoc), indent)

print_jsdoc(jsdoc, truncated, indent) ==
  IF truncated
  THEN print_indent(indent + 1) \o <<println("print_jsdoc", first_line(jsdoc))>>
  ELSE print_all_lines(jsdoc_lines(jsdoc), indent)

\* The writes of print_details, and whether it returned (ok) or panicked.
print_details_writes(node) ==
  LET header == println("print_details",
                  Fmt(<<<<"D", "e", "f", "i", "n", "e", "d", " ", "i", "n", " ">>,
                        node.location.filename, <<":">>,
                        NatToString(node.location.line), <<":">>,
                        NatToString(node.location.col), <<".", "\n">>>>))
      sig == signature(node)
  IN  IF sig = Panic THEN [writes |-> <<header>>, ok |-> FALSE]
      ELSE [writes |-> <<header, println(signature_fn(node.kind), sig)>>
                       \o (IF is_some(node.js_doc)
                           THEN print_jsdoc(unwrap(node.js_doc), FALSE, 1)
                           ELSE <<>>),
            ok |-> TRUE]

----------------------------------------------------------------------------
(* The sort of print_.                                                     *)

kind_order(kind) ==
  CASE kind = "Function" -> 0
    [] kind = "Variable" -> 1
    [] kind = "Class" -> 2
    [] kind = "Enum" -> 3
    [] kind = "Interface" -> 4
    [] kind = "TypeAlias" -> 5
    [] kind = "Namespace" -> 6

IntCmp(a, b) == IF a < b THEN -1 ELSE IF a > b THEN 1 ELSE 0

\* The comparator handed to sort_unstable_by.
compare(a, b) ==
  LET kind_cmp == IntCmp(kind_order(a.kind), kind_order(b.kind))
  IN  IF kind_cmp = 0 THEN StrCmp(a.name, b.name) ELSE kind_cmp

IndexOrders(n) ==
  {f \in [1..n -> 1..n] : \A i, j \in 1..n : i # j => f[i] # f[j]}

\* slice::sort_unstable_by: the slice in an order the comparator agrees
\* with; the order of elements that compare Equal is unspecified, so every
\* such order is an outcome.
sort_unstable_by(v) ==
  {[n \in 1..Len(v) |-> v[f[n]]] : f \in
     {g \in IndexOrders(Len(v)) :
        \A i, j \in 1..Len(v) : i < j => compare(v[g[i]], v[g[j]]) <= 0}}

----------------------------------------------------------------------------
(* The checked inputs.                                                     *)

name_a == <<"a">>
name_b == <<"b">>
name_n == <<"n">>
doc_x == <<"x">>
doc_two == <<"x", "\n", "y", "\n", "\n", "z">>
loc_1 == Location(<<"f">>, 12, 3)
loc_2 == Location(<<"f">>, 7, 0)

ts_s == TsKeyword(<<"s">>)
ts_bad == TsBare("Union")

\* Elements of the checked lists: two plain ones, one that renders as the
\* empty string, one with an empty type-argument list, one without a tag.
Elems == {ts_s, TsThis, TsTuple(<<>>), TsTypeRef(<<"A">>, Some(<<>>)), TsBlank}

TypeLists == SeqsUpTo(Elems, MaxListLen)

ParamDefs ==
  {ParamDef(n, t) : n \in {name_a, name_b}, t \in {None, Some(ts_s), Some(ts_bad)}}

ParamLists == SeqsUpTo(ParamDefs, MaxListLen)

Literals ==
  {TsLiteral("Boolean", Some(b), None, None) : b \in BOOLEAN}
  \cup {TsLiteral("Number", None, None, Some(n)) : n \in {0, 12, -3}}
  \cup {TsLiteral("String", None, Some(<<"s">>), None),
        TsLiteral("Number", None, Some(<<"s">>), None)}

TsTypes ==
  Elems
  \cup {TsUnion(ts) : ts \in TypeLists}
  \cup {TsIntersection(ts) : ts \in TypeLists}
  \cup {TsTuple(ts) : ts \in TypeLists}
  \cup {TsTypeRef(<<"A">>, Some(ts)) : ts \in TypeLists}
  \cup {TsTypeRef(<<"A">>, None)}
  \cup {TsArray(t) : t \in Elems}
  \cup {TsParenthesized(t) : t \in Elems}
  \cup {TsRest(t) : t \in Elems}
  \cup {TsTypeOperator(<<"k">>, t) : t \in Elems}
  \cup {TsIndexedAccess(o, i) : o, i \in Elems}
  \cup {TsConditional(c, e, ts_s, f) : c, e, f \in {ts_s, TsBlank}}
  \cup {TsFnOrConstructor(c, ps, t) :
          c \in BOOLEAN, ps \in SeqsUpTo({ParamDef(name_a, Some(ts_s)),
                                           ParamDef(name_b, None)}, 2),
          t \in {ts_s, TsBlank}}
  \cup Literals
  \cup {TsOptional, TsTypeLiteral(<<"{", "}">>), TsTypeQuery(<<"q">>)}
  \cup {TsBare(kd) : kd \in {"Array", "Conditional", "FnOrConstructor",
                             "IndexedAccess", "Intersection", "Keyword", "Literal",
                             "Parenthesized", "Rest", "Tuple", "TypeOperator",
                             "TypeQuery", "TypeRef", "Union"}}

Docs == SeqsUpTo({"x", "\n"}, MaxDocLen)

Leaf(kind, name, location, js_doc) ==
  DocNode(kind, name, location, js_doc, None, None, None)

fn_def == FunctionDef(<<ParamDef(name_a, Some(ts_s)), ParamDef(name_b, None)>>, Some(ts_s))

fn_a == DocNode("Function", name_a, loc_1, None, Some(fn_def), None, None)
fn_a_doc == DocNode("Function", name_a, loc_2, Some(doc_x), Some(fn_def), None, None)
var_b == DocNode("Variable", name_b, loc_1, None, None, Some(VariableDef("Const", None)), None)
class_b == Leaf("Class", name_b, loc_1, None)
class_a == Leaf("Class", name_a, loc_2, Some(doc_two))
enum_a == Leaf("Enum", name_a, loc_1, None)
interface_a == Leaf("Interface", name_a, loc_1, None)
type_a == Leaf("TypeAlias", name_a, loc_1, None)
\* tags whose payload is missing
fn_b_bare == Leaf("Function", name_b, loc_1, None)
var_a_bad ==
  DocNode("Variable", name_a, loc_1, None, None, Some(VariableDef("Var", Some(ts_bad))), None)
ns_bare == Leaf("Namespace", name_n, loc_1, Some(doc_x))

Namespace(name, js_doc, elements) ==
  DocNode("Namespace", name, loc_2, js_doc, None, None, Some(NamespaceDef(elements)))

ns_0 == Namespace(name_n, None, <<>>)
ns_1 == Namespace(name_n, None, <<class_b>>)
ns_2 == Namespace(name_a, None, <<class_b, fn_a_doc>>)
ns_doc == Namespace(name_b, Some(doc_x), <<class_a>>)
ns_deep == Namespace(name_n, None, <<Namespace(name_b, None, <<enum_a>>), class_a>>)
ns_inner_bad == Namespace(name_a, None, <<fn_b_bare>>)

Leaves ==
  {fn_a, fn_a_doc, var_b, class_b, class_a, enum_a, interface_a, type_a,
   fn_b_bare, var_a_bad}

Namespaces == {ns_0, ns_1, ns_2, ns_doc, ns_deep, ns_inner_bad, ns_bare}

Nodes == Leaves \cup Namespaces

Forests == SeqsUpTo(Nodes, MaxSiblings)

\* Every node of the inputs, at any depth.
RECURSIVE Subtree(_)
Subtree(node) ==
  {node} \cup
    (IF node.kind = "Namespace" /\ is_some(node.namespace_def)
     THEN LET elements == unwrap(node.namespace_def).elements
          IN  UNION {Subtree(elements[n]) : n \in 1..Len(elements)}
     ELSE {})

AllNodes == UNION {Subtree(node) : node \in Nodes}

\* `match node.kind` of print_: what the signature routine of each node hands
\* to println!, a function of the node alone, tabulated over the nodes.
signatures == [node \in AllNodes |-> signature(node)]

----------------------------------------------------------------------------
(* The renders. Procs are the renders that may run; Main is the one of a   *)
(* single-threaded program.                                                *)

Procs == {1, 2}
Main == 1

Top(p) == stack[p][Len(stack[p])]
Node(p) == Top(p).sorted[Top(p).i]
\* A loop that starts at the second node.
FrameFromSecond(sorted, indent) == [sorted |-> sorted, i |-> 2, indent |-> indent]
Frame(sorted, indent) == [sorted |-> sorted, i |-> 1, indent |-> indent]
Emit(p, w) == Append(sink, [by |-> p, fn |-> w.fn, txt |-> w.txt])
SetTop(p, f) == [stack EXCEPT ![p] = [@ EXCEPT ![Len(@)] = f]]

RECURSIVE EmitAll(_, _, _)
EmitAll(p, ws, s) ==
  IF ws = <<>> THEN s
  ELSE EmitAll(p, Tail(ws), Append(s, [by |-> p, fn |-> Head(ws).fn, txt |-> Head(ws).txt]))

Init ==
  /\ pc = [p \in Procs |-> "idle"]
  /\ call = [p \in Procs |-> [op |-> "none"]]
  /\ stack = [p \in Procs |-> <<>>]
  /\ k = [p \in Procs |-> 0]
  /\ sink = <<>>
  /\ ret = <<>>

\* print(doc_nodes): print_(doc_nodes, 0) clones and sorts the collection.
print(p, inputs) ==
  /\ pc[p] = "idle"
  /\ \E doc_nodes \in inputs :
       \E sorted \in sort_unstable_by(doc_nodes) :
         /\ call' = [call EXCEPT ![p] = [op |-> "print", doc_nodes |-> doc_nodes]]
         /\ stack' = [stack EXCEPT ![p] = <<Frame(sorted, 0)>>]
  /\ pc' = [pc EXCEPT ![p] = "loop"]
  /\ UNCHANGED <<k, sink, ret>>

\* `for node in sorted`: the next node, whose signature routine starts with
\* print_indent.
ForNext(p) ==
  /\ pc[p] = "loop"
  /\ Top(p).i <= Len(Top(p).sorted)
  /\ pc' = [pc EXCEPT ![p] = "sig"]
  /\ k' = [k EXCEPT ![p] = 0]
  /\ UNCHANGED <<call, stack, sink, ret>>

\* The loop is over: print_ returns, to print or to the Namespace arm.
Return(p) ==
  /\ pc[p] = "loop"
  /\ Top(p).i > Len(Top(p).sorted)
  /\ stack' = [stack EXCEPT ![p] = SubSeq(@, 1, Len(@) - 1)]
  /\ pc' = [pc EXCEPT ![p] = IF Len(stack[p]) = 1 THEN "done" ELSE "ns_blank"]
  /\ UNCHANGED <<call, k, sink, ret>>

\* One turn of print_indent's loop, in a signature routine (indent levels) or
\* in print_jsdoc (indent + 1 levels).
PrintIndent(p) ==
  /\ pc[p] \in {"sig", "doc"}
  /\ k[p] < (IF pc[p] = "sig" THEN Top(p).indent ELSE Top(p).indent + 1)
  /\ sink' = Emit(p, Write("print_indent", <<" ", " ">>))
  /\ k' = [k EXCEPT ![p] = @ + 1]
  /\ UNCHANGED <<pc, call, stack, ret>>

\* After print_indent, the signature routine unwraps what it needs and
\* prints its line.
Signature(p) ==
  /\ pc[p] = "sig"
  /\ k[p] = Top(p).indent
  /\ LET sig == signatures[Node(p)]
     IN  IF sig = Panic
         THEN /\ pc' = [pc EXCEPT ![p] = "panic"]
              /\ UNCHANGED <<sink, k>>
         ELSE /\ sink' = Emit(p, println(signature_fn(Node(p).kind), sig))
              /\ pc' = [pc EXCEPT ![p] = IF is_some(Node(p).js_doc)
                                          THEN "doc" ELSE "blank"]
              /\ k' = [k EXCEPT ![p] = 0]
  /\ UNCHANGED <<call, stack, ret>>

\* print_jsdoc(js_doc, true, indent): after print_indent(indent + 1), the
\* first line.
Jsdoc(p) ==
  /\ pc[p] = "doc"
  /\ k[p] = Top(p).indent + 1
  /\ sink' = Emit(p, println("print_jsdoc", first_line(unwrap(Node(p).js_doc))))
  /\ pc' = [pc EXCEPT ![p] = "blank"]
  /\ UNCHANGED <<call, stack, k, ret>>

\* println!(""), then `match kind`: a Namespace unwraps namespace_def and
\* calls print_ on its elements at indent + 1; any other node ends the turn.
Blank(p) ==
  /\ pc[p] = "blank"
  /\ sink' = Emit(p, println("print_", <<>>))
  /\ IF Node(p).kind = "Namespace"
     THEN IF is_some(Node(p).namespace_def)
          THEN /\ \E sorted \in sort_unstable_by(unwrap(Node(p).namespace_def).elements) :
                    stack' = [stack EXCEPT ![p] = Append(@, Frame(sorted, Top(p).indent + 1))]
               /\ pc' = [pc EXCEPT ![p] = "loop"]
          ELSE /\ pc' = [pc EXCEPT ![p] = "panic"]
               /\ UNCHANGED stack
     ELSE /\ stack' = SetTop(p, [Top(p) EXCEPT !.i = @ + 1])
          /\ pc' = [pc EXCEPT ![p] = "loop"]
  /\ UNCHANGED <<call, k, ret>>

\* A Namespace arm without the println!("") after the nested print_.
NsBlankSilent(p) ==
  /\ pc[p] = "ns_blank"
  /\ stack' = SetTop(p, [Top(p) EXCEPT !.i = @ + 1])
  /\ pc' = [pc EXCEPT ![p] = "loop"]
  /\ UNCHANGED <<call, k, sink, ret>>

\* println!("") after the nested print_ returned; the turn ends.
NsBlank(p) ==
  /\ pc[p] = "ns_blank"
  /\ sink' = Emit(p, println("print_", <<>>))
  /\ stack' = SetTop(p, [Top(p) EXCEPT !.i = @ + 1])
  /\ pc' = [pc EXCEPT ![p] = "loop"]
  /\ UNCHANGED <<call, k, ret>>

\* print_details(node), start to end.
print_details(p) ==
  /\ pc[p] = "idle"
  /\ \E node \in Nodes :
       LET r == print_details_writes(node)
       IN  /\ call' = [call EXCEPT ![p] = [op |-> "print_details", node |-> node]]
           /\ sink' = EmitAll(p, r.writes, sink)
           /\ pc' = [pc EXCEPT ![p] = IF r.ok THEN "done" ELSE "panic"]
  /\ UNCHANGED <<stack, k, ret>>

\* print_jsdoc(jsdoc, truncated, indent), start to end.
PrintJsdoc(p) ==
  /\ pc[p] = "idle"
  /\ \E jsdoc \in Docs, truncated \in BOOLEAN, indent \in {0, 1} :
       /\ call' = [call EXCEPT ![p] = [op |-> "print_jsdoc", jsdoc |-> jsdoc,
                                       truncated |-> truncated, indent |-> indent]]
       /\ sink' = EmitAll(p, print_jsdoc(jsdoc, truncated, indent), sink)
  /\ pc' = [pc EXCEPT ![p] = "done"]
  /\ UNCHANGED <<stack, k, ret>>

\* render_ts_type(ts_type)
RenderTsType(p) ==
  /\ pc[p] = "idle"
  /\ \E ts_type \in TsTypes :
       LET r == render_ts_type(ts_type)
       IN  /\ call' = [call EXCEPT ![p] = [op |-> "render_ts_type", ts_type |-> ts_type]]
           /\ ret' = r
           /\ pc' = [pc EXCEPT ![p] = IF r = Panic THEN "panic" ELSE "done"]
  /\ UNCHANGED <<stack, k, sink>>

\* render_params(params)
RenderParams(p) ==
  /\ pc[p] = "idle"
  /\ \E params \in ParamLists :
       LET r == render_params(params)
       IN  /\ call' = [call EXCEPT ![p] = [op |-> "render_params", params |-> params]]
           /\ ret' = r
           /\ pc' = [pc EXCEPT ![p] = IF r = Panic THEN "panic" ELSE "done"]
  /\ UNCHANGED <<stack, k, sink>>

\* The steps of a running print_.
Step(p) ==
  \/ ForNext(p)
  \/ Return(p)
  \/ PrintIndent(p)
  \/ Signature(p)
  \/ Jsdoc(p)
  \/ Blank(p)
  \/ NsBlank(p)

\* One render, of any entry point, on one thread.
Next ==
  \/ print(Main, Forests)
  \/ print_details(Main)
  \/ PrintJsdoc(Main)
  \/ RenderTsType(Main)
  \/ RenderParams(Main)
  \/ Step(Main)

Spec == Init /\ [][Next]_vars

\* A running print_ that can take a step takes it: the thread is not
\* suspended for ever.
FairSpec == Init /\ [][Next]_vars /\ WF_vars(Step(Main))

\* Two renders on two threads, writing to the one standard output.
ConcForests(p) == IF p = Main THEN {<<ns_1>>} ELSE {<<class_a>>}

ConcNext == \E p \in Procs : print(p, ConcForests(p)) \/ Step(p)

ConcSpec == Init /\ [][ConcNext]_vars

----------------------------------------------------------------------------
(* What the claims are stated in: the lines of the sink, and the outputs   *)
(* the specification describes, written without the printer's operators.   *)

\* The characters of one write, each with the render and the routine that
\* wrote it.
WriteChars(w) == [n \in 1..Len(w.txt) |-> [c |-> w.txt[n], by |-> w.by, fn |-> w.fn]]

\* The characters of the sink in order.
RECURSIVE SinkChars(_)
SinkChars(s) ==
  IF s = <<>> THEN <<>>
  ELSE IF Len(s) = 1 THEN WriteChars(s[1])
  ELSE LET half == Len(s) \div 2
       IN  SinkChars(SubSeq(s, 1, half)) \o SinkChars(SubSeq(s, half + 1, Len(s)))

\* The complete lines of the sink, each with its final "\n" character: the
\* n-th line runs from behind the (n-1)-th "\n" to the n-th.
SinkLines ==
  LET text == SinkChars(sink)
      ends == {n \in 1..Len(text) : text[n].c = "\n"}
      nth == [n \in 1..Cardinality(ends) |->
                CHOOSE i \in ends : Cardinality({j \in ends : j <= i}) = n]
  IN  [n \in 1..Cardinality(ends) |->
         SubSeq(text, IF n = 1 THEN 1 ELSE nth[n - 1] + 1, nth[n])]

\* The text after the last "\n": empty when the sink ends a line.
SinkPartial ==
  LET text == SinkChars(sink)
      ends == {n \in 1..Len(text) : text[n].c = "\n"}
      last == IF ends = {} THEN 0 ELSE CHOOSE i \in ends : \A j \in ends : j <= i
  IN  SubSeq(text, last + 1, Len(text))

\* The text of a line, without its "\n".
LineText(l) == [n \in 1..(Len(l) - 1) |-> l[n].c]
\* The text of a line after what print_indent wrote.
LineBody(l) == LineText(SelectSeq(l, LAMBDA ch : ch.fn # "print_indent"))
\* The levels of indentation print_indent wrote on a line.
LineLevels(l) == Len(SelectSeq(l, LAMBDA ch : ch.fn = "print_indent")) \div 2
\* The routine that ended the line.
LineFn(l) == l[Len(l)].fn

LineTexts == LET ls == SinkLines IN [n \in 1..Len(ls) |-> LineText(ls[n])]

Spaces(n) == [i \in 1..n |-> " "]

\* The intercalation of strs with sep.
RECURSIVE Intercalate(_, _)
Intercalate(strs, sep) ==
  IF strs = <<>> THEN <<>>
  ELSE IF Len(strs) = 1 THEN strs[1]
  ELSE strs[1] \o sep \o Intercalate(Tail(strs), sep)

Rendered(list) == [n \in 1..Len(list) |-> render_ts_type(list[n])]

ParamText(param) ==
  IF is_some(param.ts_type)
  THEN param.name \o <<":", " ">> \o render_ts_type(unwrap(param.ts_type))
  ELSE param.name

Returned(op) == pc[Main] = "done" /\ call[Main].op = op

----------------------------------------------------------------------------
(* C2: render_ts_type on a TypeRef gives the name when the type-argument   *)
(* list is absent, name<args joined by ", "> when it is present and not    *)
(* empty, and the name alone, without angle brackets, when it is present   *)
(* and empty.                                                              *)
C2_TypeRefRendering ==
  (Returned("render_ts_type") /\ call[Main].ts_type.kind = Some("TypeRef")) =>
    LET type_ref == unwrap(call[Main].ts_type.type_ref)
    IN  IF ~is_some(type_ref.type_params) THEN ret = type_ref.type_name
        ELSE IF Len(unwrap(type_ref.type_params)) > 0
        THEN ret = type_ref.type_name \o <<"<">>
                   \o Intercalate(Rendered(unwrap(type_ref.type_params)), <<",", " ">>)
                   \o <<">">>
        ELSE ret = type_ref.type_name

----------------------------------------------------------------------------
(* C3: the append-a-separator-then-truncate rendering of a Union (" | "),  *)
(* an Intersection (" & "), a Tuple (", ") and a parameter list (", ")     *)
(* equals the intercalation of the rendered elements: empty for the empty  *)
(* list, the element's rendering alone for one element, N renderings with  *)
(* N-1 separators for N elements.                                          *)
C3_JoinIsIntercalation ==
  /\ Returned("render_ts_type") =>
       LET ts_type == call[Main].ts_type
       IN  /\ ts_type.kind = Some("Union") =>
                ret = Intercalate(Rendered(unwrap(ts_type.union)), <<" ", "|", " ">>)
           /\ ts_type.kind = Some("Intersection") =>
                ret = Intercalate(Rendered(unwrap(ts_type.intersection)), <<" ", "&", " ">>)
           /\ ts_type.kind = Some("Tuple") =>
                ret = Intercalate(Rendered(unwrap(ts_type.tuple)), <<",", " ">>)
  /\ Returned("render_params") =>
       LET params == call[Main].params
       IN  /\ ret = Intercalate([n \in 1..Len(params) |-> ParamText(params[n])], <<",", " ">>)
           /\ Len(params) = 0 => ret = <<>>
           /\ Len(params) = 1 => ret = ParamText(params[1])

\* A Union of three elements was rendered.
C3_Witness ==
  /\ Returned("render_ts_type")
  /\ call[Main].ts_type.kind = Some("Union")
  /\ Len(unwrap(call[Main].ts_type.union)) = 3
  /\ ret = <<"s", " ", "|", " ", " ", "|", " ", "t", "h", "i", "s">>

----------------------------------------------------------------------------
(* The order, the paragraphs and the tree output as the specification      *)
(* states them.                                                            *)

Precedence ==
  <<"Function", "Variable", "Class", "Enum", "Interface", "TypeAlias", "Namespace">>

Rank(kind) == CHOOSE r \in 1..Len(Precedence) : Precedence[r] = kind

\* a prints strictly before b: lower kind precedence, or the same kind and
\* a smaller name.
Before(a, b) ==
  \/ Rank(a.kind) < Rank(b.kind)
  \/ Rank(a.kind) = Rank(b.kind) /\ StrCmp(a.name, b.name) < 0

\* The orders of v in which no node comes after one it is Before.
Orders(v) ==
  {[n \in 1..Len(v) |-> v[f[n]]] : f \in
     {g \in IndexOrders(Len(v)) :
        \A i, j \in 1..Len(v) : i < j => ~Before(v[g[j]], v[g[i]])}}

\* The stable sort of v: x goes behind every node it is not Before.
RECURSIVE InsertStable(_, _)
InsertStable(s, x) ==
  IF s = <<>> THEN <<x>>
  ELSE IF Before(x, Head(s)) THEN <<x>> \o s
  ELSE <<Head(s)>> \o InsertStable(Tail(s), x)

RECURSIVE StableSort(_)
StableSort(v) ==
  IF v = <<>> THEN <<>>
  ELSE InsertStable(StableSort(SubSeq(v, 1, Len(v) - 1)), v[Len(v)])

HasChildren(node) == node.kind = "Namespace" /\ is_some(node.namespace_def)
Children(node) == IF HasChildren(node) THEN unwrap(node.namespace_def).elements ELSE <<>>
WithChildren(node, c) == [node EXCEPT !.namespace_def = Some(NamespaceDef(c))]

\* The collection with every sibling level in one of its Orders.
RECURSIVE Arranged(_), ArrangedSeq(_)
ArrangedSeq(s) ==
  IF s = <<>> THEN {<<>>}
  ELSE {<<h>> \o t :
          h \in (IF HasChildren(Head(s))
                 THEN {WithChildren(Head(s), c) : c \in Arranged(Children(Head(s)))}
                 ELSE {Head(s)}),
          t \in ArrangedSeq(Tail(s))}
Arranged(nodes) == UNION {ArrangedSeq(o) : o \in Orders(nodes)}

\* The collection with every sibling level stably sorted.
RECURSIVE StableArranged(_)
StableArranged(nodes) ==
  LET sorted == StableSort(nodes)
  IN  [n \in 1..Len(sorted) |->
         IF HasChildren(sorted[n])
         THEN WithChildren(sorted[n], StableArranged(Children(sorted[n])))
         ELSE sorted[n]]

\* Where the first "\n\n" of a comment starts; past its end when it has none.
FirstBreak(doc) ==
  LET breaks == {n \in 1..(Len(doc) - 1) : doc[n] = "\n" /\ doc[n + 1] = "\n"}
  IN  IF breaks = {} THEN Len(doc) + 1
      ELSE CHOOSE n \in breaks : \A m \in breaks : n <= m

Reflow(text) == [n \in 1..Len(text) |-> IF text[n] = "\n" THEN " " ELSE text[n]]

FirstParagraph(doc) == Reflow(SubSeq(doc, 1, FirstBreak(doc) - 1))

RECURSIVE Paragraphs(_)
Paragraphs(doc) ==
  IF FirstBreak(doc) > Len(doc) THEN <<Reflow(doc)>>
  ELSE <<FirstParagraph(doc)>> \o Paragraphs(SubSeq(doc, FirstBreak(doc) + 2, Len(doc)))

\* The lines of the tree output for nodes printed in the order given: for
\* each node its signature at the depth, its comment line if it has a
\* comment, a blank line; for a Namespace, then its children one level
\* deeper and one more blank line.
RECURSIVE TreeLines(_, _)
TreeLines(nodes, depth) ==
  IF nodes = <<>> THEN <<>>
  ELSE LET node == Head(nodes)
       IN  <<Spaces(2 * depth) \o signature(node)>>
           \o (IF is_some(node.js_doc)
               THEN <<Spaces(2 * (depth + 1)) \o FirstParagraph(unwrap(node.js_doc))>>
               ELSE <<>>)
           \o << <<>> >>
           \o (IF node.kind = "Namespace"
               THEN TreeLines(Children(node), depth + 1) \o << <<>> >>
               ELSE <<>>)
           \o TreeLines(Tail(nodes), depth)

\* The signature lines alone, depth first.
RECURSIVE TreeSignatures(_, _)
TreeSignatures(nodes, depth) ==
  IF nodes = <<>> THEN <<>>
  ELSE <<Spaces(2 * depth) \o signature(Head(nodes))>>
       \o TreeSignatures(Children(Head(nodes)), depth + 1)
       \o TreeSignatures(Tail(nodes), depth)

\* The namespace nesting depth of a collection.
RECURSIVE NsDepth(_)
NsDepth(nodes) ==
  LET ds == {1 + NsDepth(Children(nodes[n])) :
               n \in {m \in 1..Len(nodes) : nodes[m].kind = "Namespace"}}
  IN  IF ds = {} THEN 0 ELSE CHOOSE d \in ds : \A e \in ds : e <= d

\* A type expression whose tag, and every tag below it, has its payload.
RECURSIVE TsMatched(_)
TsMatched(t) ==
  /\ is_some(t.kind)
  /\ LET kd == unwrap(t.kind)
         All(list) == \A n \in 1..Len(list) : TsMatched(list[n])
     IN  CASE kd = "Array" -> is_some(t.array) /\ TsMatched(unwrap(t.array))
           [] kd = "Conditional" ->
                /\ is_some(t.conditional_type)
                /\ LET c == unwrap(t.conditional_type)
                   IN  All(<<c.check_type, c.extends_type, c.true_type, c.false_type>>)
           [] kd = "FnOrConstructor" ->
                /\ is_some(t.fn_or_constructor)
                /\ LET f == unwrap(t.fn_or_constructor)
                   IN  /\ TsMatched(f.ts_type)
                       /\ \A n \in 1..Len(f.params) :
                            is_some(f.params[n].ts_type) =>
                              TsMatched(unwrap(f.params[n].ts_type))
           [] kd = "IndexedAccess" ->
                /\ is_some(t.indexed_access)
                /\ LET a == unwrap(t.indexed_access) IN All(<<a.obj_type, a.index_type>>)
           [] kd = "Intersection" -> is_some(t.intersection) /\ All(unwrap(t.intersection))
           [] kd = "Keyword" -> is_some(t.keyword)
           [] kd = "Literal" ->
                /\ is_some(t.literal)
                /\ LET l == unwrap(t.literal)
                   IN  (CASE l.kind = "Boolean" -> is_some(l.boolean)
                          [] l.kind = "String" -> is_some(l.string)
                          [] l.kind = "Number" -> is_some(l.number))
           [] kd = "Parenthesized" ->
                is_some(t.parenthesized) /\ TsMatched(unwrap(t.parenthesized))
           [] kd = "Rest" -> is_some(t.rest) /\ TsMatched(unwrap(t.rest))
           [] kd = "Tuple" -> is_some(t.tuple) /\ All(unwrap(t.tuple))
           [] kd = "TypeOperator" ->
                is_some(t.type_operator) /\ TsMatched(unwrap(t.type_operator).ts_type)
           [] kd = "TypeQuery" -> is_some(t.type_query)
           [] kd = "TypeRef" ->
                /\ is_some(t.type_ref)
                /\ is_some(unwrap(t.type_ref).type_params) =>
                     All(unwrap(unwrap(t.type_ref).type_params))
           [] kd = "Union" -> is_some(t.union) /\ All(unwrap(t.union))
           [] OTHER -> TRUE

\* A node whose tag has its payload, with every type expression in it.
NodeMatched(node) ==
  CASE node.kind = "Function" ->
         /\ is_some(node.function_def)
         /\ LET f == unwrap(node.function_def)
            IN  /\ is_some(f.return_type)
                /\ TsMatched(unwrap(f.return_type))
                /\ \A n \in 1..Len(f.params) :
                     is_some(f.params[n].ts_type) => TsMatched(unwrap(f.params[n].ts_type))
    [] node.kind = "Variable" ->
         /\ is_some(node.variable_def)
         /\ is_some(unwrap(node.variable_def).ts_type) =>
              TsMatched(unwrap(unwrap(node.variable_def).ts_type))
    [] node.kind = "Namespace" -> is_some(node.namespace_def)
    [] OTHER -> TRUE

RECURSIVE WellFormed(_)
WellFormed(nodes) ==
  \A n \in 1..Len(nodes) : NodeMatched(nodes[n]) /\ WellFormed(Children(nodes[n]))

SignatureFns ==
  {"print_function_signature", "print_variable_signature", "print_class_signature",
   "print_enum_signature", "print_interface_signature", "print_type_alias_signature",
   "print_namespace_signature"}

\* The lines that signature routines wrote, in order.
SignatureLines ==
  LET ls == SelectSeq(SinkLines, LAMBDA l : LineFn(l) \in SignatureFns)
  IN  [n \in 1..Len(ls) |-> LineText(ls[n])]

----------------------------------------------------------------------------
(* C1: the tree printer emits the nodes of one sibling level in the order  *)
(* of a stable sort by (kind precedence, then name): lower precedence      *)
(* first, within a kind the smaller name first, and two nodes of the same  *)
(* kind and name in their input order. Stated of the finished output: it   *)
(* is the tree output of the stably sorted collection.                     *)
C1_StableSortOrder ==
  Returned("print") =>
    LineTexts = TreeLines(StableArranged(call[Main].doc_nodes), 0)

----------------------------------------------------------------------------
(* C4: every node emits its signature line at the current depth, then one  *)
(* comment line if and only if it has a comment, then one blank line; a    *)
(* Namespace then emits its children at depth + 1 and one more blank line, *)
(* before any line of its next sibling. A namespace without comment gives  *)
(* signature, blank, blank for no children.                                *)
C4_NodeBlocks ==
  Returned("print") =>
    /\ SinkPartial = <<>>
    /\ LineTexts \in {TreeLines(a, 0) : a \in Arranged(call[Main].doc_nodes)}
    /\ call[Main].doc_nodes = <<ns_0>> =>
         LineTexts = <<namespace_signature(ns_0), <<>>, <<>>>>
    /\ call[Main].doc_nodes = <<ns_1>> =>
         LineTexts = <<namespace_signature(ns_1), <<>>,
                       <<" ", " ">> \o class_signature(class_b), <<>>, <<>>>>

\* A namespace with two children and no comment was printed, and after it
\* its next sibling, a namespace with nested children.
C4_Witness ==
  /\ Returned("print")
  /\ call[Main].doc_nodes = <<ns_deep, ns_2>>
  /\ Len(LineTexts) = 19

----------------------------------------------------------------------------
(* C5: in full mode, as print_details uses it, every paragraph of the      *)
(* comment is emitted in order, each on its own line, each indented        *)
(* exactly one level deeper than the signature line of its node.           *)
C5_FullCommentOneLevelDeeper ==
  (Returned("print_details") /\ is_some(call[Main].node.js_doc)) =>
    LET sigs == SelectSeq(SinkLines, LAMBDA l : LineFn(l) \in SignatureFns)
        docs == SelectSeq(SinkLines, LAMBDA l : LineFn(l) = "print_jsdoc")
        paragraphs == Paragraphs(unwrap(call[Main].node.js_doc))
    IN  /\ Len(sigs) = 1
        /\ Len(docs) = Len(paragraphs)
        /\ \A n \in 1..Len(docs) :
             /\ LineBody(docs[n]) = paragraphs[n]
             /\ LineLevels(docs[n]) = LineLevels(sigs[1]) + 1

----------------------------------------------------------------------------
(* C6: in truncated mode print_jsdoc emits exactly one line whatever the   *)
(* comment: its first paragraph, single newlines replaced by spaces, and   *)
(* no later paragraph; an empty comment still gives one line. The tree     *)
(* printer emits that one line after the signature of a node with a        *)
(* comment, and none for a node without.                                   *)
C6_TruncatedOneLine ==
  /\ (Returned("print_jsdoc") /\ call[Main].truncated) =>
       /\ Len(SinkLines) = 1
       /\ SinkPartial = <<>>
       /\ LineBody(SinkLines[1]) = FirstParagraph(call[Main].jsdoc)
  /\ pc[Main] = "blank" =>
       LET n == Len(SinkLines)
       IN  IF is_some(Node(Main).js_doc)
           THEN /\ LineFn(SinkLines[n]) = "print_jsdoc"
                /\ LineBody(SinkLines[n]) = FirstParagraph(unwrap(Node(Main).js_doc))
                /\ LineFn(SinkLines[n - 1]) = signature_fn(Node(Main).kind)
           ELSE LineFn(SinkLines[n]) = signature_fn(Node(Main).kind)

\* A comment of two paragraphs was printed truncated.
C6_Witness ==
  /\ Returned("print_jsdoc")
  /\ call[Main].truncated
  /\ call[Main].jsdoc = <<"x", "\n", "\n", "x">>
  /\ LineTexts = <<Spaces(2 * (call[Main].indent + 1)) \o <<"x">>>>

----------------------------------------------------------------------------
\* The location as the claim words it, and the paragraphs of the comment.
LocationText(location) ==
  location.filename \o <<":">> \o NatToString(location.line)
  \o <<":">> \o NatToString(location.col)

CommentOf(node) == IF is_some(node.js_doc) THEN Paragraphs(unwrap(node.js_doc)) ELSE <<>>

(* C7: print_details writes first the location line filename:line:col,     *)
(* then the node's one signature line at depth 0, then the node's full     *)
(* comment if present, and nothing else; nothing is sorted and no line is  *)
(* written for a child of a Namespace.                                     *)
C7_DetailsOutput ==
  Returned("print_details") =>
    LET node == call[Main].node
    IN  /\ Len(SinkLines) = 2 + Len(CommentOf(node))
        /\ LineText(SinkLines[1]) = LocationText(node.location)
        /\ LineText(SinkLines[2]) = signature(node)
        /\ \A n \in 1..Len(CommentOf(node)) :
             LineBody(SinkLines[2 + n]) = CommentOf(node)[n]

(* C7 as amended: the location line reads "Defined in filename:line:col."  *)
(* and one blank line follows it; then the signature line at depth 0, the  *)
(* full comment if present, and nothing else: no child line.               *)
C7_DetailsOutputAmended ==
  Returned("print_details") =>
    LET node == call[Main].node
    IN  /\ SinkPartial = <<>>
        /\ Len(SinkLines) = 3 + Len(CommentOf(node))
        /\ LineText(SinkLines[1]) =
             <<"D", "e", "f", "i", "n", "e", "d", " ", "i", "n", " ">>
             \o LocationText(node.location) \o <<".">>
        /\ LineText(SinkLines[2]) = <<>>
        /\ LineText(SinkLines[3]) = signature(node)
        /\ \A n \in 1..Len(CommentOf(node)) :
             LineBody(SinkLines[3 + n]) = CommentOf(node)[n]

\* The detail view of a Namespace that has a child and a comment.
C7_Witness ==
  /\ Returned("print_details")
  /\ call[Main].node = ns_doc
  /\ Len(SinkLines) = 4

----------------------------------------------------------------------------
(* C8: a render that reaches a node or a type expression whose tag has no  *)
(* matching payload aborts there: no signature text is written for that    *)
(* node, nothing is written after it, and the render does not complete.    *)
C8_AbortsAtMismatch ==
  /\ \A p \in Procs :
       pc[p] \in {"doc", "blank"} => NodeMatched(Node(p))
  /\ Returned("print") => WellFormed(call[Main].doc_nodes)
  /\ Returned("print_details") => NodeMatched(call[Main].node)
  /\ Returned("render_ts_type") => TsMatched(call[Main].ts_type)

----------------------------------------------------------------------------
\* Every character of the line was written by the same render.
OneWriter(l) == \A i, j \in 1..Len(l) : l[i].by = l[j].by

(* C9: every output line reaches the sink as one unit: with two renders    *)
(* running against the same sink, no line holds text written by both.      *)
C9_LinesAtomic ==
  /\ \A n \in 1..Len(SinkLines) : OneWriter(SinkLines[n])
  /\ OneWriter(SinkPartial)

----------------------------------------------------------------------------
\* The part of C10 that every state satisfies: depth, indentation per frame,
\* no abort on a well-formed tree, and the signature lines of a finished run.
C10_Safety ==
  call[Main].op = "print" =>
    /\ Len(stack[Main]) <= NsDepth(call[Main].doc_nodes) + 1
    /\ \A n \in 1..Len(stack[Main]) : stack[Main][n].indent = n - 1
    /\ WellFormed(call[Main].doc_nodes) => pc[Main] # "panic"
    /\ pc[Main] = "done" =>
         SignatureLines \in {TreeSignatures(a, 0) : a \in Arranged(call[Main].doc_nodes)}

(* C10: on a well-formed tree the tree printer terminates; its recursion   *)
(* depth (nested print_ calls below the first) never exceeds the namespace *)
(* nesting depth of the input; and it writes exactly one signature line    *)
(* for every node, at 2 spaces times the node's nesting depth, depth first *)
(* with the siblings in sorted order.                                      *)
C10_TreePrinterTerminates ==
  /\ []C10_Safety
  /\ (call[Main].op = "print" /\ WellFormed(call[Main].doc_nodes)) ~> (pc[Main] = "done")

\* The printer is two print_ calls below the first, in a tree nested two deep.
C10_Witness ==
  /\ call[Main].op = "print"
  /\ WellFormed(call[Main].doc_nodes)
  /\ NsDepth(call[Main].doc_nodes) = 2
  /\ Len(stack[Main]) = 3
  /\ pc[Main] = "blank"

====
